---- MODULE Spec2Model ----
(***************************************************************************)
(* Model of pyss.statemachine.StateMachine: the registry of states and     *)
(* transitions, the parent/children index, the lru_cache-memoized          *)
(* hierarchy queries and the structural validation.                        *)
(***************************************************************************)
EXTENDS Integers, Sequences, FiniteSets, TLC

\* ------------------------------------------------------------------ bounds
NumNames == 3       \* state names used by the hierarchy specification
MaxRegs == 3        \* register_state calls in the hierarchy specification
MaxQueries == 2     \* memoized / leaf queries in the hierarchy specification
MaxList == 2        \* length of the list handed to leaf_for
NumNamesV == 2      \* state names used by the validation specification
MaxRegsV == 2       \* register_state calls in the validation specification
MaxTrans == 1       \* register_transition calls in the validation specification
NumNamesL == 4      \* state names used by the ancestor specification
MaxRegsL == 6       \* register_state calls in the ancestor specification
MaxQueriesL == 1    \* ancestor queries in the ancestor specification

NameSeq == <<"a", "b", "c", "d", "e", "f">>
NamesUpTo(n) == {NameSeq[i] : i \in 1..n}

\* Python's None.
None == "None"

\* A dict is a function whose domain is the set of its keys.
EmptyDict == [k \in {} |-> k]

\* d[k] = v
Put(d, k, v) == [x \in DOMAIN d \cup {k} |-> IF x = k THEN v ELSE d[x]]

VARIABLES
    states,        \* StateMachine.states: name -> state object
    order,         \* insertion order of the keys of StateMachine.states
    parent,        \* StateMachine.parent: name -> parent name or None
    children,      \* StateMachine.children: top-level state names
    transitions,   \* StateMachine.transitions: list of Transition objects
    cache,         \* the four lru_cache stores of the memoized methods
    call,          \* the last call made on the machine and how it ended
    hung,          \* TRUE once a call entered a loop that never ends
    nregs,         \* number of register_state calls made
    ntrans,        \* number of register_transition calls made (also the
                   \* identity of the next Transition object)
    nqueries       \* number of query calls made

vars == <<states, order, parent, children, transitions, cache, call, hung,
          nregs, ntrans, nqueries>>

\* ------------------------------------------------------------ state objects
\* A state object as its constructor leaves it: no children, no transitions.
NewState(kind, initial) ==
    [kind |-> kind, initial |-> initial, children |-> <<>>, transitions |-> <<>>]

\* name in self.states
Registered(st, n) == n \in DOMAIN st

\* isinstance(state, CompositeStateMixin)
CompositeStateMixin(kind) == kind \in {"Compound", "Orthogonal"}

\* isinstance(state, TransitionStateMixin)
TransitionStateMixin(kind) == kind \in {"Basic", "Compound", "Orthogonal"}

Elems(s) == {s[i] : i \in 1..Len(s)}

\* The stores of the four lru_cache wrappers, nothing memoized yet.  The
\* default maxsize of 128 entries is never reached with the names used here,
\* so no entry is ever evicted.
EmptyCache ==
    [anc |-> EmptyDict, desc |-> EmptyDict, depth |-> EmptyDict, lca |-> EmptyDict]

Init ==
    /\ states = EmptyDict
    /\ order = <<>>
    /\ parent = EmptyDict
    /\ children = <<>>
    /\ transitions = <<>>
    /\ cache = EmptyCache
    /\ call = [op |-> "init", args |-> <<>>, err |-> "none", ret |-> <<>>]
    /\ hung = FALSE
    /\ nregs = 0
    /\ ntrans = 0
    /\ nqueries = 0

\* ------------------------------------------------------------ register_state
\* The machine after register_state(state, parent) and the error it raised.
register_state(st, par, ch, name, kind, initial, p) ==
    LET st1 == Put(st, name, NewState(kind, initial))
        par1 == Put(par, name, p)
    IN  IF Registered(st1, p)
        THEN IF CompositeStateMixin(st1[p].kind)
             THEN [states |-> [st1 EXCEPT ![p].children = Append(@, name)],
                   parent |-> par1, children |-> ch, err |-> "none"]
             ELSE [states |-> st1, parent |-> par1, children |-> ch,
                   err |-> "AttributeError"]
        ELSE [states |-> st1, parent |-> par1, children |-> Append(ch, name),
              err |-> "none"]

Call_register_state(name, kind, initial, p) ==
    /\ ~hung
    /\ LET r == register_state(states, parent, children, name, kind, initial, p)
       IN  /\ states' = r.states
           /\ parent' = r.parent
           /\ children' = r.children
           /\ call' = [op |-> "register_state", args |-> <<name, p>>,
                       err |-> r.err, ret |-> <<>>]
    /\ order' = IF name \in Elems(order) THEN order ELSE Append(order, name)
    /\ nregs' = nregs + 1
    /\ UNCHANGED <<transitions, cache, hung, ntrans, nqueries>>

\* ------------------------------------------------------- hierarchy queries
\* Results of a call: kind is "ok", the exception raised, or "diverges" for
\* a loop that never ends; val is the value returned; cache is the state of
\* the lru_cache stores after the call.
Result(kind, val, c) == [kind |-> kind, val |-> val, cache |-> c]

\* The while loop of ancestors_for: p is the local `parent`, acc the list.
\* A name met twice on the walk means the loop never ends.
RECURSIVE ancestors_loop(_, _, _)
ancestors_loop(par, p, acc) ==
    IF p = None THEN [kind |-> "ok", val |-> acc]
    ELSE IF p \in Elems(acc) THEN [kind |-> "diverges", val |-> <<>>]
    ELSE IF p \notin DOMAIN par THEN [kind |-> "KeyError", val |-> <<>>]
    ELSE ancestors_loop(par, par[p], Append(acc, p))

\* ancestors_for as it would be if the walk started at the state itself.
ancestors_from_self(par, state) ==
    IF state \notin DOMAIN par
    THEN [kind |-> "KeyError", val |-> <<>>]
    ELSE ancestors_loop(par, state, <<>>)

\* ancestors_for without its memo (lru_cache's __wrapped__).
ancestors_for_uncached(par, state) ==
    IF state \notin DOMAIN par
    THEN [kind |-> "KeyError", val |-> <<>>]
    ELSE ancestors_loop(par, par[state], <<>>)

\* state.children for a composite state, nothing for the others.
ChildrenOf(st, n) ==
    IF CompositeStateMixin(st[n].kind) THEN st[n].children ELSE <<>>

RECURSIVE ReachableFrom(_, _)
ReachableFrom(st, S) ==
    LET T == S \cup UNION {Elems(ChildrenOf(st, x)) : x \in S}
    IN  IF T = S THEN S ELSE ReachableFrom(st, T)

\* The work list of descendants_for is refilled forever exactly when a
\* state that is its own descendant is reached.
DescendantsDiverge(st, state) ==
    \E n \in ReachableFrom(st, {state}) :
        n \in ReachableFrom(st, Elems(ChildrenOf(st, n)))

\* The while loop of descendants_for: queue is states_to_consider.
RECURSIVE descendants_loop(_, _, _)
descendants_loop(st, queue, acc) ==
    IF queue = <<>> THEN acc
    ELSE LET ch == ChildrenOf(st, Head(queue))
         IN  descendants_loop(st, Tail(queue) \o ch, acc \o ch)

\* descendants_for without its memo.
descendants_for_uncached(st, state) ==
    IF ~Registered(st, state) THEN [kind |-> "KeyError", val |-> <<>>]
    ELSE IF DescendantsDiverge(st, state) THEN [kind |-> "diverges", val |-> <<>>]
    ELSE [kind |-> "ok", val |-> descendants_loop(st, <<state>>, <<>>)]

\* @lru_cache() ancestors_for: a stored result is returned as it is; a
\* computed one is stored unless the computation raised.
ancestors_for(c, par, state) ==
    IF state \in DOMAIN c.anc THEN Result("ok", c.anc[state], c)
    ELSE LET r == ancestors_for_uncached(par, state)
         IN  IF r.kind = "ok"
             THEN Result("ok", r.val, [c EXCEPT !.anc = Put(@, state, r.val)])
             ELSE Result(r.kind, <<>>, c)

\* @lru_cache() descendants_for
descendants_for(c, st, state) ==
    IF state \in DOMAIN c.desc THEN Result("ok", c.desc[state], c)
    ELSE LET r == descendants_for_uncached(st, state)
         IN  IF r.kind = "ok"
             THEN Result("ok", r.val, [c EXCEPT !.desc = Put(@, state, r.val)])
             ELSE Result(r.kind, <<>>, c)

\* @lru_cache() depth_of (state may be None)
depth_of(c, par, state) ==
    IF state \in DOMAIN c.depth THEN Result("ok", c.depth[state], c)
    ELSE IF state = None THEN Result("ok", 0, [c EXCEPT !.depth = Put(@, state, 0)])
    ELSE LET a == ancestors_for(c, par, state)
         IN  IF a.kind = "ok"
             THEN Result("ok", Len(a.val) + 1,
                         [a.cache EXCEPT !.depth = Put(@, state, Len(a.val) + 1)])
             ELSE Result(a.kind, 0, a.cache)

\* The for loop of least_common_ancestor: the first entry of s1_anc that is
\* in s2_anc, None when the loop ends without a return.
RECURSIVE first_common(_, _)
first_common(s1_anc, s2_anc) ==
    IF s1_anc = <<>> THEN None
    ELSE IF Head(s1_anc) \in Elems(s2_anc) THEN Head(s1_anc)
    ELSE first_common(Tail(s1_anc), s2_anc)

\* @lru_cache() least_common_ancestor
least_common_ancestor(c, par, s1, s2) ==
    IF <<s1, s2>> \in DOMAIN c.lca THEN Result("ok", c.lca[<<s1, s2>>], c)
    ELSE LET a1 == ancestors_for(c, par, s1)
         IN  IF a1.kind # "ok" THEN Result(a1.kind, None, a1.cache)
             ELSE LET a2 == ancestors_for(a1.cache, par, s2)
                  IN  IF a2.kind # "ok" THEN Result(a2.kind, None, a2.cache)
                      ELSE LET v == first_common(a1.val, a2.val)
                           IN  Result("ok", v,
                                      [a2.cache EXCEPT !.lca = Put(@, <<s1, s2>>, v)])

\* The outer loop of leaf_for, from index i on, with the leaves kept so far.
RECURSIVE leaf_loop(_, _, _, _, _)
leaf_loop(c, st, lst, i, leaves) ==
    IF i > Len(lst) THEN Result("ok", leaves, c)
    ELSE LET d == descendants_for(c, st, lst[i])
         IN  IF d.kind # "ok" THEN Result(d.kind, <<>>, d.cache)
             ELSE LET keep == \A j \in 1..Len(d.val) : d.val[j] \notin Elems(lst)
                  IN  leaf_loop(d.cache, st, lst, i + 1,
                                IF keep THEN Append(leaves, lst[i]) ELSE leaves)

leaf_for(c, st, lst) == leaf_loop(c, st, lst, 1, <<>>)

\* A query call ends: its result is returned, its error raised, or the call
\* never returns and the program makes no further step.
QueryEnds(op, args, r) ==
    /\ ~hung
    /\ cache' = r.cache
    /\ hung' = (r.kind = "diverges")
    /\ call' = [op |-> op, args |-> args,
                err |-> IF r.kind = "ok" THEN "none" ELSE r.kind,
                ret |-> IF r.kind = "ok" THEN <<r.val>> ELSE <<>>]
    /\ nqueries' = nqueries + 1
    /\ UNCHANGED <<states, order, parent, children, transitions, nregs, ntrans>>

Call_ancestors_for(s) ==
    QueryEnds("ancestors_for", <<s>>, ancestors_for(cache, parent, s))

Call_descendants_for(s) ==
    QueryEnds("descendants_for", <<s>>, descendants_for(cache, states, s))

Call_depth_of(s) ==
    QueryEnds("depth_of", <<s>>, depth_of(cache, parent, s))

Call_least_common_ancestor(s1, s2) ==
    QueryEnds("least_common_ancestor", <<s1, s2>>,
              least_common_ancestor(cache, parent, s1, s2))

Call_leaf_for(lst) ==
    QueryEnds("leaf_for", lst, leaf_for(cache, states, lst))

\* ------------------------------------------------------ register_transition
\* A Transition object; id stands for the identity of the object.
Transition(id, from_state, to_state, event, guard) ==
    [id |-> id, from_state |-> from_state, to_state |-> to_state,
     event |-> event, guard |-> guard]

\* register_transition as it would be if a source state that is not
\* registered were skipped (self.states.get and a test for None).
register_transition_lenient(tr, st, t) ==
    LET tr1 == Append(tr, t)
    IN  IF ~Registered(st, t.from_state)
        THEN [transitions |-> tr1, states |-> st, err |-> "none"]
        ELSE IF ~TransitionStateMixin(st[t.from_state].kind)
        THEN [transitions |-> tr1, states |-> st, err |-> "AttributeError"]
        ELSE [transitions |-> tr1,
              states |-> [st EXCEPT ![t.from_state].transitions = Append(@, t)],
              err |-> "none"]

\* The machine after register_transition(t) and the error it raised: the
\* append to self.transitions comes first, the lookup of the source state
\* and its add_transition after it.
register_transition(tr, st, t) ==
    LET tr1 == Append(tr, t)
    IN  IF ~Registered(st, t.from_state)
        THEN [transitions |-> tr1, states |-> st, err |-> "KeyError"]
        ELSE IF ~TransitionStateMixin(st[t.from_state].kind)
        THEN [transitions |-> tr1, states |-> st, err |-> "AttributeError"]
        ELSE [transitions |-> tr1,
              states |-> [st EXCEPT ![t.from_state].transitions = Append(@, t)],
              err |-> "none"]

Call_register_transition(from_state, to_state, event, guard) ==
    /\ ~hung
    /\ LET t == Transition(ntrans + 1, from_state, to_state, event, guard)
           r == register_transition(transitions, states, t)
       IN  /\ transitions' = r.transitions
           /\ states' = r.states
           /\ call' = [op |-> "register_transition", args |-> <<from_state, to_state>>,
                       err |-> r.err, ret |-> <<>>]
    /\ ntrans' = ntrans + 1
    /\ UNCHANGED <<order, parent, children, cache, hung, nregs, nqueries>>

\* -------------------------------------------------------------------- valid
\* The two checks of the loop over self.transitions (C1 and C6).
valid_transition(st, t) ==
    IF ~(Registered(st, t.from_state)
         /\ (t.to_state = None \/ Registered(st, t.to_state)))
    THEN "ValueError"
    ELSE IF t.event = None /\ t.guard = None /\ t.to_state = None
    THEN "ValueError"
    ELSE "none"

\* The checks of a HistoryState (C2 and C3).
valid_history(st, par, name) ==
    IF ~Registered(st, par[name]) THEN "KeyError"
    ELSE IF st[par[name]].kind # "Compound" THEN "ValueError"
    ELSE IF st[name].initial = None THEN "none"
    ELSE IF st[name].initial \notin DOMAIN par THEN "KeyError"
    ELSE IF par[st[name].initial] # par[name] THEN "ValueError"
    ELSE "none"

\* The check of a composite state (C5).
valid_composite(st, name) ==
    IF Len(st[name].children) <= 0 THEN "ValueError" ELSE "none"

\* The check of a CompoundState (C4).
valid_compound(st, par, name) ==
    IF par[name] = None THEN "none"
    ELSE IF st[name].initial \notin DOMAIN par THEN "KeyError"
    ELSE IF par[st[name].initial] # name THEN "ValueError"
    ELSE "none"

\* The body of the loop over self.states.items() for one state.
valid_state(st, par, name) ==
    LET h == IF st[name].kind = "History" THEN valid_history(st, par, name)
             ELSE "none"
        c == IF CompositeStateMixin(st[name].kind) THEN valid_composite(st, name)
             ELSE "none"
        i == IF st[name].kind = "Compound" THEN valid_compound(st, par, name)
             ELSE "none"
    IN  IF h # "none" THEN h ELSE IF c # "none" THEN c ELSE i

\* The first error of a loop whose i-th round ends as errs[i].
RECURSIVE first_error(_)
first_error(errs) ==
    IF errs = <<>> THEN "none"
    ELSE IF Head(errs) # "none" THEN Head(errs)
    ELSE first_error(Tail(errs))

\* The exception valid raises, "none" when it returns True.
valid(tr, st, par, ord) ==
    LET te == first_error([i \in 1..Len(tr) |-> valid_transition(st, tr[i])])
    IN  IF te # "none" THEN te
        ELSE first_error([i \in 1..Len(ord) |-> valid_state(st, par, ord[i])])

Call_valid ==
    /\ ~hung
    /\ LET e == valid(transitions, states, parent, order)
       IN  call' = [op |-> "valid", args |-> <<>>, err |-> e,
                    ret |-> IF e = "none" THEN <<TRUE>> ELSE <<>>]
    /\ UNCHANGED <<states, order, parent, children, transitions, cache, hung,
                   nregs, ntrans, nqueries>>

\* ----------------------------------------------- validation specification
NamesV == NamesUpTo(NumNamesV)

\* The initial a constructor of each kind of state can be given.
Initials(kind) ==
    IF kind = "Compound" THEN NamesV
    ELSE IF kind = "History" THEN NamesV \cup {None}
    ELSE {None}

Kinds == {"Basic", "Compound", "Orthogonal", "History", "Final"}

NextRegisterV ==
    \E name \in NamesV, kind \in Kinds, p \in NamesV \cup {None} :
        \E initial \in Initials(kind) :
            nregs < MaxRegsV /\ Call_register_state(name, kind, initial, p)

NextTransitionV ==
    \E from_state \in NamesV, to_state \in NamesV \cup {None},
       event \in {None, "e"}, guard \in {None, "g"} :
        ntrans < MaxTrans /\ Call_register_transition(from_state, to_state, event, guard)

NextValidV == Call_valid

NextV ==
    \/ NextRegisterV
    \/ NextTransitionV
    \/ NextValidV

SpecV == Init /\ [][NextV]_vars

\* ------------------------------------------------ hierarchy specification
Names == NamesUpTo(NumNames)

Lists(S, n) == UNION {[1..k -> S] : k \in 0..n}

NextRegister ==
    \E name \in Names, kind \in {"Basic", "Orthogonal"}, p \in Names \cup {None} :
        nregs < MaxRegs /\ Call_register_state(name, kind, None, p)

NextAncestors ==
    \E s \in Names : nqueries < MaxQueries /\ Call_ancestors_for(s)

NextDescendants ==
    \E s \in Names : nqueries < MaxQueries /\ Call_descendants_for(s)

NextDepth ==
    \E s \in Names \cup {None} : nqueries < MaxQueries /\ Call_depth_of(s)

NextLca ==
    \E s1 \in Names, s2 \in Names :
        nqueries < MaxQueries /\ Call_least_common_ancestor(s1, s2)

NextLeaf ==
    \E lst \in Lists(Names, MaxList) : nqueries < MaxQueries /\ Call_leaf_for(lst)

Next ==
    \/ NextRegister
    \/ NextAncestors
    \/ NextDescendants
    \/ NextDepth
    \/ NextLca
    \/ NextLeaf

Spec == Init /\ [][Next]_vars

\* -------------------------------------------------- ancestor specification
\* register_state interleaved with ancestors_for, over more names and calls.
NamesL == NamesUpTo(NumNamesL)

\* The builder registers composite states, each below the root or below a
\* state that is registered already, and takes a new name in the order of
\* NameSeq (every other choice of names is a renaming of such a run).
NextRegisterL ==
    \E i \in 1..NumNamesL, p \in NamesL \cup {None} :
        /\ nregs < MaxRegsL
        /\ i <= Len(order) + 1
        /\ p = None \/ Registered(states, p)
        /\ Call_register_state(NameSeq[i], "Orthogonal", None, p)

NextAncestorsL ==
    \E s \in NamesL : nqueries < MaxQueriesL /\ Call_ancestors_for(s)

NextLcaL ==
    \E s1 \in NamesL, s2 \in NamesL :
        nqueries < MaxQueriesL /\ Call_least_common_ancestor(s1, s2)

NextL ==
    \/ NextRegisterL
    \/ NextAncestorsL
    \/ NextLcaL

SpecL == Init /\ [][NextL]_vars

\* ===================================================================== claims

\* What a call returns or raises, apart from its effect on the memo.
Same(r1, r2) == r1.kind = r2.kind /\ r1.val = r2.val

\* C1: memoized hierarchy queries never return stale results: in every state
\* reached by interleaving register_state with the queries, each of
\* ancestors_for, descendants_for, depth_of and least_common_ancestor ends as
\* a computation without memo over the current structure would end.
C1_NoStaleMemo ==
    /\ \A s \in DOMAIN states :
        /\ Same(ancestors_for(cache, parent, s),
                ancestors_for(EmptyCache, parent, s))
        /\ Same(descendants_for(cache, states, s),
                descendants_for(EmptyCache, states, s))
        /\ Same(depth_of(cache, parent, s), depth_of(EmptyCache, parent, s))
    /\ \A s1 \in DOMAIN states, s2 \in DOMAIN states :
        Same(least_common_ancestor(cache, parent, s1, s2),
             least_common_ancestor(EmptyCache, parent, s1, s2))

NoDuplicates(lst) == Cardinality(Elems(lst)) = Len(lst)

\* C2: after any sequence of register_state calls the parent index and the
\* children lists agree: c is in the children of composite p exactly when
\* parent[c] = p, c is in the top-level children exactly when parent[c] is
\* None, and no children list holds a name twice.
C2_ParentChildrenConsistent ==
    /\ \A p \in DOMAIN states :
        CompositeStateMixin(states[p].kind) =>
            /\ NoDuplicates(states[p].children)
            /\ \A c \in NamesUpTo(Len(NameSeq)) :
                (c \in Elems(states[p].children))
                    <=> (c \in DOMAIN parent /\ parent[c] = p)
    /\ NoDuplicates(children)
    /\ \A c \in NamesUpTo(Len(NameSeq)) :
        (c \in Elems(children)) <=> (c \in DOMAIN parent /\ parent[c] = None)

\* C3: a register_state call for a name that is registered already fails
\* with DuplicateStateError and leaves states, parent and every children
\* list as they were.
C3_DuplicateRejected ==
    [][(nregs' # nregs /\ call'.args[1] \in DOMAIN states)
          => (/\ call'.err = "DuplicateStateError"
              /\ states' = states
              /\ parent' = parent
              /\ children' = children)]_vars

\* C4: for every registered state s, ancestors_for(s) ends and its result
\* does not hold s (the parent relation has no cycle).
C4_AncestorsAcyclic ==
    \A s \in DOMAIN states :
        LET r == ancestors_for(cache, parent, s)
        IN  /\ r.kind # "diverges"
            /\ r.kind = "ok" => s \notin Elems(r.val)

\* s2 is below s1: the walk up the parent index from s2 ends and meets s1.
IsDescendant(s1, s2) ==
    LET a2 == ancestors_for_uncached(parent, s2)
    IN  a2.kind = "ok" /\ s1 \in Elems(a2.val)

\* C5 as stated: for registered s1, s2 with s2 a descendant of s1,
\* least_common_ancestor(s1, s2) returns s1.
C5_LcaOfDescendantIsSelf ==
    \A s1 \in DOMAIN states, s2 \in DOMAIN states :
        IsDescendant(s1, s2) =>
            LET r == least_common_ancestor(cache, parent, s1, s2)
            IN  r.kind = "ok" /\ r.val = s1

\* C5 amended: for registered s1, s2 with s2 a descendant of s1,
\* least_common_ancestor(s1, s2) returns, and never returns s1; computed
\* over the current parent index it returns the direct parent of s1, None
\* when s1 is a top-level state.
C5_LcaOfDescendantIsParent ==
    \A s1 \in DOMAIN states, s2 \in DOMAIN states :
        IsDescendant(s1, s2) =>
            LET r == least_common_ancestor(cache, parent, s1, s2)
                f == least_common_ancestor(EmptyCache, parent, s1, s2)
            IN  /\ r.kind = "ok" /\ r.val # s1
                /\ f.kind = "ok" /\ f.val = parent[s1]

\* A least_common_ancestor(s1, s2) call has returned the parent of s1 for a
\* nested s1 with s2 below it.
C5_Witness ==
    /\ call.op = "least_common_ancestor"
    /\ call.err = "none"
    /\ call.args[1] \in DOMAIN states /\ call.args[2] \in DOMAIN states
    /\ IsDescendant(call.args[1], call.args[2])
    /\ parent[call.args[1]] # None
    /\ call.ret = <<parent[call.args[1]]>>

\* C6: least_common_ancestor(s1, s2) and least_common_ancestor(s2, s1)
\* return the same state (or both None) for every pair of registered states.
C6_LcaSymmetric ==
    \A s1 \in DOMAIN states, s2 \in DOMAIN states :
        LET r1 == least_common_ancestor(cache, parent, s1, s2)
            r2 == least_common_ancestor(cache, parent, s2, s1)
        IN  (r1.kind = "ok" /\ r2.kind = "ok") => r1.val = r2.val

\* The six invariants of the validation, as the specification states them.
InvariantC1 ==
    \A t \in Elems(transitions) :
        /\ t.from_state \in DOMAIN states
        /\ t.to_state = None \/ t.to_state \in DOMAIN states

InvariantC2 ==
    \A h \in DOMAIN states :
        states[h].kind = "History" =>
            /\ parent[h] \in DOMAIN states
            /\ states[parent[h]].kind = "Compound"

InvariantC3 ==
    \A h \in DOMAIN states :
        (states[h].kind = "History" /\ states[h].initial # None) =>
            /\ states[h].initial \in DOMAIN parent
            /\ parent[states[h].initial] = parent[h]

InvariantC4 ==
    \A c \in DOMAIN states :
        (states[c].kind = "Compound" /\ parent[c] # None) =>
            /\ states[c].initial \in DOMAIN parent
            /\ parent[states[c].initial] = c

InvariantC5 ==
    \A c \in DOMAIN states :
        CompositeStateMixin(states[c].kind) => Len(states[c].children) > 0

InvariantC6 ==
    \A t \in Elems(transitions) :
        ~(t.to_state = None /\ t.event = None /\ t.guard = None)

AllInvariants ==
    /\ InvariantC1 /\ InvariantC2 /\ InvariantC3
    /\ InvariantC4 /\ InvariantC5 /\ InvariantC6

\* C7: valid returns True exactly when the six invariants hold, and fails
\* with a validation error (never with another error) when one of them is
\* violated.
C7_ValidDecides ==
    call.op = "valid" =>
        IF AllInvariants THEN call.err = "none" /\ call.ret = <<TRUE>>
        ELSE call.err = "ValueError"

\* C8: register_transition for a transition whose from_state is not a
\* registered state fails with the error of the lookup of an unknown state
\* (the KeyError of self.states[transition.from_state]).
C8_UnknownSourceFails ==
    (call.op = "register_transition" /\ call.args[1] \notin DOMAIN states)
        => call.err = "KeyError"

\* A register_transition call for an unregistered from_state has failed.
C8_Witness ==
    /\ call.op = "register_transition"
    /\ call.args[1] \notin DOMAIN states
    /\ call.err = "KeyError"

\* The states below s in the children lists.
DescendantSet(s) == ReachableFrom(states, Elems(ChildrenOf(states, s)))

\* The input states that have no other input state among their descendants.
LeavesOf(lst) ==
    SelectSeq(lst, LAMBDA s :
        ~\E t \in Elems(lst) : t # s /\ t \in DescendantSet(s))

\* C9: for every list of registered names leaf_for returns, in input order,
\* exactly the input states with no other input state among their
\* descendants; the result holds no ancestor-descendant pair and leaf_for of
\* it is the result again.
C9_LeafForExact ==
    \A lst \in Lists(DOMAIN states, MaxList) :
        LET r == leaf_for(cache, states, lst)
        IN  r.kind = "ok" =>
                /\ r.val = LeavesOf(lst)
                /\ \A s \in Elems(r.val), t \in Elems(r.val) :
                       t # s => t \notin DescendantSet(s)
                /\ Same(leaf_for(r.cache, states, r.val), r)

\* C10: a transition is in the machine's transitions list exactly when it is
\* in the outgoing list of the registered state its from_state names, and a
\* failing register_transition call leaves the machine's list unchanged.
C10_TransitionsIndexed ==
    /\ \A t \in Elems(transitions) :
        /\ t.from_state \in DOMAIN states
        /\ t \in Elems(states[t.from_state].transitions)
    /\ \A n \in DOMAIN states :
        \A t \in Elems(states[n].transitions) :
            t \in Elems(transitions) /\ t.from_state = n
    /\ (call.op = "register_transition" /\ call.err # "none")
        => \A t \in Elems(transitions) : t.id # ntrans

====
